---- MODULE Spec2Model ----
(***************************************************************************)
(* Model of the plan validator of packages/runtime                          *)
(* (src/packages/runtime/src/util/validate-plan.ts).                        *)
(*                                                                          *)
(* A plan is a record of options and an ordered list of steps.  validate    *)
(* is one synchronous call: it is modelled as the single action Validate,   *)
(* which computes, exactly in the order of the source, the zod schema       *)
(* parse, assertStart, buildModel, assertNoCircularReferences,              *)
(* assertSingletonDependencies, assertStepKeys, assertValidOptions,         *)
(* assertValidStepIds and assertUnreferencedSteps.  An exception is a       *)
(* record [kind, text]; console.warn output is the sequence `warnings`.     *)
(* JavaScript objects used as ordered dictionaries (the model, its up and   *)
(* down maps, a mapping-form next) are sequences of keys in insertion       *)
(* order, which is the order for..in visits them in.                        *)
(*                                                                          *)
(* The module also models the lifecycle of one run of packages/engine-multi *)
(* (api/execute and the handlers of api/lifecycle): the worker's start, log *)
(* and complete events pass through the handler map of execute, which       *)
(* updates the state of the run's context and emits the outward events.     *)
(* This is the specification SpecLifecycle; Spec is the validator.          *)
(***************************************************************************)
EXTENDS Integers, Sequences, FiniteSets, TLC

VARIABLES plan, calls, outcome, warnings, first,
          state, emitted, clock, event, delivered, logged, history,
          pc, workflow, adaptorPaths, compiled, dispatched,
          constructed,
          heap, contexts, solo

\* the variables of the plan validator, of the lifecycle of one run, of one
\* call of execute, of the errors the engine constructs, and of two contexts
\* that live side by side
validateVars == <<plan, calls, outcome, warnings, first>>
lifecycleVars == <<state, emitted, clock, event, delivered, logged, history>>
executeVars == <<pc, workflow, adaptorPaths, compiled, dispatched>>
errorVars == <<constructed>>
poolVars == <<heap, contexts, solo>>

vars == <<plan, calls, outcome, warnings, first,
          state, emitted, clock, event, delivered, logged, history,
          pc, workflow, adaptorPaths, compiled, dispatched,
          constructed, heap, contexts, solo>>

(***************************************************************************)
(* Bounds of the model.                                                     *)
(***************************************************************************)
\* longest step list of the graph family of plans
MaxSteps == 3
\* longest step list of the families that vary string-form next and step fields
MaxFieldSteps == 2
\* number of validate calls made on one plan
MaxCalls == 2
\* depth of nested search calls the engine's call stack holds
StackLimit == 6
\* number of worker events delivered to one context
MaxEvents == 3
\* number of milliseconds the clock advances during one run
MaxTicks == 2
\* number of errors constructed one after another
MaxErrors == 2
\* longest list of jobs of the plan execute is given
MaxJobs == 2

(***************************************************************************)
(* Values.                                                                  *)
(***************************************************************************)
\* an absent field reads as undefined
Undefined == "undefined"
\* step ids are ordinary strings; NoId is the id of a step that declares none
Ids == {"a", "b", "c"}
NoId == Undefined
\* a value that is not a string (the 123 of the schema test)
Number123 == "<number 123>"

Range(s) == {s[i] : i \in 1..Len(s)}

\* a key set in a JS object keeps its first insertion position
AddKey(keys, k) == IF k \in Range(keys) THEN keys ELSE Append(keys, k)

\* no exception
NoThrow == [kind |-> "none", text |-> <<>>]

ValidationError(message) == [kind |-> "ValidationError", text |-> <<message>>]

\* infinite recursion ends in the engine's "Maximum call stack size exceeded"
RangeError == [kind |-> "RangeError", text |-> <<"Maximum call stack size exceeded">>]

(***************************************************************************)
(* The zod schemas: the issues of executionPlanSchema.parse, in the order   *)
(* zod visits the shape (options before workflow, the keys of each object   *)
(* in declaration order, the steps by index).                               *)
(***************************************************************************)
Issue(path, message) == [code |-> "invalid", message |-> message, path |-> path]

\* options.timeout is <<>> when absent and <<n>> when given
optionsIssues(options) ==
  IF options.timeout # <<>> /\ options.timeout[1] < 0
    THEN <<Issue(<<"options", "timeout">>, "Timeout must be a non-negative number")>>
    ELSE <<>>

\* mutant: the parse of a step stops at its first issue
stepIssuesFailFast(step, index) ==
  LET at(key) == <<"workflow", "steps", ToString(index), key>>
  IN  IF step.name # Undefined /\ Len(step.name) < 3
        THEN <<Issue(at("name"), "Name must be at least 3 characters long")>>
      ELSE IF step.adaptor # Undefined /\ Len(step.adaptor) < 3
        THEN <<Issue(at("adaptor"), "Adaptor must be at least 3 characters long")>>
      ELSE IF step.expression = Number123
        THEN <<Issue(at("expression"), "Expected string, received number")>>
      ELSE <<>>

stepIssues(step, index) ==
  LET at(key) == <<"workflow", "steps", ToString(index), key>>
  IN  (IF step.name # Undefined /\ Len(step.name) < 3
         THEN <<Issue(at("name"), "Name must be at least 3 characters long")>>
         ELSE <<>>)
      \o (IF step.adaptor # Undefined /\ Len(step.adaptor) < 3
         THEN <<Issue(at("adaptor"), "Adaptor must be at least 3 characters long")>>
         ELSE <<>>)
      \o (IF step.expression = Number123
         THEN <<Issue(at("expression"), "Expected string, received number")>>
         ELSE <<>>)

RECURSIVE stepsIssues(_, _)
stepsIssues(steps, i) ==
  IF i > Len(steps) THEN <<>>
  ELSE stepIssues(steps[i], i - 1) \o stepsIssues(steps, i + 1)

executionPlanSchema(p) == optionsIssues(p.options) \o stepsIssues(p.steps, 1)

\* error.path.join('.')
RECURSIVE join(_)
join(path) ==
  IF Len(path) = 0 THEN ""
  ELSE IF Len(path) = 1 THEN path[1]
  ELSE path[1] \o "." \o join(Tail(path))

formatZodErrors(errors) ==
  [i \in 1..Len(errors) |->
     [code |-> errors[i].code, message |-> errors[i].message, path |-> join(errors[i].path)]]

\* one line `${path}: ${message}` per error; the lines are joined by '\n'
formattedErrorsToString(formattedErrors) ==
  [i \in 1..Len(formattedErrors) |->
     formattedErrors[i].path \o ": " \o formattedErrors[i].message]

(***************************************************************************)
(* buildModel                                                               *)
(***************************************************************************)
EmptyModel == [keys |-> <<>>, up |-> [i \in Ids |-> <<>>], down |-> [i \in Ids |-> <<>>]]

\* jobIdx: the ids for which the lookup table holds a step
jobIdx(steps) == {steps[i].id : i \in 1..Len(steps)} \ {NoId}

ensureModel(model, jobId) == [model EXCEPT !.keys = AddKey(@, jobId)]

\* mutant: the lookup never fails
validateJobLax(steps, jobId) == NoThrow

validateJob(steps, jobId) ==
  IF jobId \in jobIdx(steps) THEN NoThrow
  ELSE ValidationError("Cannot find job: " \o jobId)

\* a variant of the inner loop that records the down edge only
RECURSIVE nextLoopNoUp(_, _, _, _)
nextLoopNoUp(steps, job, keys, model) ==
  IF keys = <<>> THEN [model |-> model, thrown |-> NoThrow]
  ELSE LET nextId == Head(keys)
           check == validateJob(steps, nextId)
       IN IF check # NoThrow THEN [model |-> model, thrown |-> check]
          ELSE LET withDown == IF job.id # NoId
                                 THEN [model EXCEPT !.down[job.id] = AddKey(@, nextId)]
                                 ELSE model
                   withNext == ensureModel(withDown, nextId)
               IN nextLoopNoUp(steps, job, Tail(keys), withNext)

\* a variant of the inner loop that records the up edge of a step without id
RECURSIVE nextLoopAnonymousUp(_, _, _, _)
nextLoopAnonymousUp(steps, job, keys, model) ==
  IF keys = <<>> THEN [model |-> model, thrown |-> NoThrow]
  ELSE LET nextId == Head(keys)
           check == validateJob(steps, nextId)
       IN IF check # NoThrow THEN [model |-> model, thrown |-> check]
          ELSE LET withDown == IF job.id # NoId
                                 THEN [model EXCEPT !.down[job.id] = AddKey(@, nextId)]
                                 ELSE model
                   withNext == ensureModel(withDown, nextId)
                   withUp == [withNext EXCEPT !.up[nextId] = AddKey(@, job.id)]
               IN nextLoopAnonymousUp(steps, job, Tail(keys), withUp)

\* the inner loop over the keys of a mapping-form next
RECURSIVE nextLoop(_, _, _, _)
nextLoop(steps, job, keys, model) ==
  IF keys = <<>> THEN [model |-> model, thrown |-> NoThrow]
  ELSE LET nextId == Head(keys)
           check == validateJob(steps, nextId)
       IN IF check # NoThrow THEN [model |-> model, thrown |-> check]
          ELSE LET withDown == IF job.id # NoId
                                 THEN [model EXCEPT !.down[job.id] = AddKey(@, nextId)]
                                 ELSE model
                   withNext == ensureModel(withDown, nextId)
                   withUp == IF job.id # NoId
                               THEN [withNext EXCEPT !.up[nextId] = AddKey(@, job.id)]
                               ELSE withNext
               IN nextLoop(steps, job, Tail(keys), withUp)

\* the loop over workflow.steps
RECURSIVE jobLoop(_, _, _)
jobLoop(steps, i, model) ==
  IF i > Len(steps) THEN [model |-> model, thrown |-> NoThrow]
  ELSE LET job == steps[i]
           withNode == IF job.id # NoId THEN ensureModel(model, job.id) ELSE model
       IN IF job.next.form = "string"
            THEN LET check == validateJob(steps, job.next.keys[1])
                 IN IF check # NoThrow THEN [model |-> withNode, thrown |-> check]
                    ELSE jobLoop(steps, i + 1, withNode)
            ELSE LET r == nextLoop(steps, job, job.next.keys, withNode)
                 IN IF r.thrown # NoThrow THEN r
                    ELSE jobLoop(steps, i + 1, r.model)

hasRequiredKey(step) ==
  step.name # Undefined \/ step.id # NoId \/ step.adaptor # Undefined

RECURSIVE emptyStepWarnings(_, _)
emptyStepWarnings(steps, i) ==
  IF i > Len(steps) THEN <<>>
  ELSE (IF hasRequiredKey(steps[i]) THEN <<>>
        ELSE <<"[Validation Warning]: The step at index " \o ToString(i - 1)
               \o " is considered empty or invalid as it lacks required properties.">>)
       \o emptyStepWarnings(steps, i + 1)

buildModel(p) ==
  LET r == jobLoop(p.steps, 1, EmptyModel)
  IN [model |-> r.model,
      thrown |-> r.thrown,
      warned |-> (IF Len(p.steps) = 0
                    THEN <<"[Validation Warning]: The steps array is empty. There are no jobs to execute.">>
                    ELSE <<>>)
                 \o emptyStepWarnings(p.steps, 1)]

(***************************************************************************)
(* The assertions                                                           *)
(***************************************************************************)
\* a variant that looks for the start among the first step only
assertStartFirstOnly(p) ==
  IF p.options.start # Undefined /\ p.options.start \notin {p.steps[i].id : i \in 1..Len(p.steps) \cap {1}}
    THEN ValidationError("Could not find start job: " \o p.options.start)
    ELSE NoThrow

assertStart(p) ==
  IF p.options.start # Undefined /\ p.options.start \notin {p.steps[i].id : i \in 1..Len(p.steps)}
    THEN ValidationError("Could not find start job: " \o p.options.start)
    ELSE NoThrow

\* search(from, targetId, 'down'); depth counts the nested calls
RECURSIVE search(_, _, _, _)
RECURSIVE searchStream(_, _, _, _, _)
search(model, from, targetId, depth) ==
  IF depth > StackLimit THEN RangeError
  ELSE searchStream(model, from, model.down[from], targetId, depth)

searchStream(model, from, stream, targetId, depth) ==
  IF stream = <<>> THEN NoThrow
  ELSE LET nextId == Head(stream)
       IN IF nextId = targetId
            THEN ValidationError("Circular dependency: " \o from \o " <-> " \o targetId)
            ELSE LET r == search(model, nextId, targetId, depth + 1)
                 IN IF r # NoThrow THEN r
                    ELSE searchStream(model, from, Tail(stream), targetId, depth)

RECURSIVE circularLoop(_, _)
circularLoop(model, keys) ==
  IF keys = <<>> THEN NoThrow
  ELSE LET r == search(model, Head(keys), Head(keys), 1)
       IN IF r # NoThrow THEN r ELSE circularLoop(model, Tail(keys))

assertNoCircularReferences(model) == circularLoop(model, model.keys)

\* mutant: a single upstream edge already counts as multiple
RECURSIVE singletonLoopStrict(_, _)
singletonLoopStrict(model, keys) ==
  IF keys = <<>> THEN NoThrow
  ELSE IF Len(model.up[Head(keys)]) > 0
         THEN ValidationError("Multiple dependencies detected for: " \o Head(keys))
         ELSE singletonLoopStrict(model, Tail(keys))

\* mutant: two upstream edges are still accepted
RECURSIVE singletonLoopLax(_, _)
singletonLoopLax(model, keys) ==
  IF keys = <<>> THEN NoThrow
  ELSE IF Len(model.up[Head(keys)]) > 2
         THEN ValidationError("Multiple dependencies detected for: " \o Head(keys))
         ELSE singletonLoopLax(model, Tail(keys))

RECURSIVE singletonLoop(_, _)
singletonLoop(model, keys) ==
  IF keys = <<>> THEN NoThrow
  ELSE IF Len(model.up[Head(keys)]) > 1
         THEN ValidationError("Multiple dependencies detected for: " \o Head(keys))
         ELSE singletonLoop(model, Tail(keys))

assertSingletonDependencies(model) == singletonLoop(model, model.keys)

\* mutant: the key whitelist is checked before the adaptor of each step
RECURSIVE stepKeysLoopKeysFirst(_, _)
stepKeysLoopKeysFirst(steps, i) ==
  IF i > Len(steps) THEN NoThrow
  ELSE LET step == steps[i]
       IN IF step.extra
            THEN ValidationError("Invalid key 'invalidKey' found in step with id '"
                                 \o step.id \o "'.")
          ELSE IF step.adaptor # Undefined /\ step.adaptor # "" /\ step.expression \in {Undefined, ""}
            THEN ValidationError("Step with adaptor '" \o step.adaptor
                                 \o "' must have an expression. Step id: '" \o step.id \o "'.")
          ELSE stepKeysLoopKeysFirst(steps, i + 1)

\* mutant: an empty expression counts as an expression
RECURSIVE stepKeysLoopNoEmpty(_, _)
stepKeysLoopNoEmpty(steps, i) ==
  IF i > Len(steps) THEN NoThrow
  ELSE LET step == steps[i]
       IN IF step.adaptor # Undefined /\ step.adaptor # "" /\ step.expression = Undefined
            THEN ValidationError("Step with adaptor '" \o step.adaptor
                                 \o "' must have an expression. Step id: '" \o step.id \o "'.")
          ELSE IF step.extra
            THEN ValidationError("Invalid key 'invalidKey' found in step with id '"
                                 \o step.id \o "'.")
          ELSE stepKeysLoopNoEmpty(steps, i + 1)

RECURSIVE stepKeysLoop(_, _)
stepKeysLoop(steps, i) ==
  IF i > Len(steps) THEN NoThrow
  ELSE LET step == steps[i]
       IN IF step.adaptor # Undefined /\ step.adaptor # "" /\ step.expression \in {Undefined, ""}
            THEN ValidationError("Step with adaptor '" \o step.adaptor
                                 \o "' must have an expression. Step id: '" \o step.id \o "'.")
          ELSE IF step.extra
            THEN ValidationError("Invalid key 'invalidKey' found in step with id '"
                                 \o step.id \o "'.")
          ELSE stepKeysLoop(steps, i + 1)

assertStepKeys(p) == stepKeysLoop(p.steps, 1)

assertValidOptions(options) ==
  IF options.extra THEN <<"Warning: Unrecognized option 'unrecognizedOption'">>
  ELSE <<>>

\* ids is a Set of every step.id seen, the undefined of a step without id included
RECURSIVE stepIdsLoop(_, _, _)
stepIdsLoop(steps, i, ids) ==
  IF i > Len(steps) THEN NoThrow
  ELSE IF steps[i].id \in ids
         THEN ValidationError("Duplicate step ID detected: " \o steps[i].id)
         ELSE stepIdsLoop(steps, i + 1, ids \cup {steps[i].id})

\* mutant: the Set lives outside the function and keeps the ids of the last call
staleIds == IF calls = 0 THEN {} ELSE {plan.steps[i].id : i \in 1..Len(plan.steps)}

newIds == {}

assertValidStepIds(steps) == stepIdsLoop(steps, 1, newIds)

referencedSteps(model) ==
  UNION {Range(model.up[id]) \cup Range(model.down[id]) : id \in Range(model.keys)}

\* a variant that stops after the first unreferenced step
RECURSIVE unreferencedLoopFirstOnly(_, _)
unreferencedLoopFirstOnly(model, keys) ==
  IF keys = <<>> THEN <<>>
  ELSE IF Head(keys) \notin referencedSteps(model) /\ Len(model.down[Head(keys)]) = 0
         THEN <<"[Validation Warning]: Unreferenced step detected: " \o Head(keys)>>
         ELSE unreferencedLoopFirstOnly(model, Tail(keys))

RECURSIVE unreferencedLoop(_, _)
unreferencedLoop(model, keys) ==
  IF keys = <<>> THEN <<>>
  ELSE (IF Head(keys) \notin referencedSteps(model) /\ Len(model.down[Head(keys)]) = 0
          THEN <<"[Validation Warning]: Unreferenced step detected: " \o Head(keys)>>
          ELSE <<>>)
       \o unreferencedLoop(model, Tail(keys))

assertUnreferencedSteps(model) == unreferencedLoop(model, model.keys)

(***************************************************************************)
(* validate: the result [outcome, warnings] of one call                     *)
(***************************************************************************)
Returned == [kind |-> "true", text |-> <<>>]

Raise(error, warned) == [outcome |-> error, warnings |-> warned]

validate(p) ==
  LET issues == executionPlanSchema(p)
  IN IF issues # <<>>
       THEN Raise([kind |-> "ValidationError",
                   text |-> formattedErrorsToString(formatZodErrors(issues))], <<>>)
     ELSE IF assertStart(p) # NoThrow THEN Raise(assertStart(p), <<>>)
     ELSE LET built == buildModel(p)
              model == built.model
          IN IF built.thrown # NoThrow THEN Raise(built.thrown, built.warned)
             ELSE IF assertNoCircularReferences(model) # NoThrow
               THEN Raise(assertNoCircularReferences(model), built.warned)
             ELSE IF assertSingletonDependencies(model) # NoThrow
               THEN Raise(assertSingletonDependencies(model), built.warned)
             ELSE IF assertStepKeys(p) # NoThrow
               THEN Raise(assertStepKeys(p), built.warned)
             ELSE LET w2 == built.warned \o assertValidOptions(p.options)
                  IN IF assertValidStepIds(p.steps) # NoThrow
                       THEN Raise(assertValidStepIds(p.steps), w2)
                       ELSE [outcome |-> Returned,
                             warnings |-> w2 \o assertUnreferencedSteps(model)]

(***************************************************************************)
(* The plans validate is called on                                          *)
(***************************************************************************)
None == [form |-> "none", keys |-> <<>>]
String(t) == [form |-> "string", keys |-> <<t>>]
Mapping(ks) == [form |-> "map", keys |-> ks]

Step(id, next, adaptor, expression, name, extra) ==
  [id |-> id, next |-> next, adaptor |-> adaptor, expression |-> expression,
   name |-> name, extra |-> extra]

\* the test helper job(id, next): an expression and nothing else
job(id, next) == Step(id, next, Undefined, ".", Undefined, FALSE)

\* extra: the options carry the key 'unrecognizedOption'
Options(start, timeout, extra) ==
  [start |-> start, timeout |-> timeout, extra |-> extra]

DefaultOptions == Options(Undefined, <<>>, FALSE)

\* plans with at most n steps drawn from a set of steps, under one of a set of options
PlansOf(options, steps, n) ==
  {p \in [options : options, steps : UNION {[1..k -> steps] : k \in 0..n}] : TRUE}

\* graph family: every step is job(id, next) with next absent or a one-key mapping
GraphSteps ==
  {job(id, next) : id \in Ids \cup {NoId},
                   next \in {None} \cup {Mapping(<<t>>) : t \in Ids}}

\* validate treats ids by equality and insertion order alone, so of the plans
\* that differ only by a renaming of ids the one that declares a, b, c in
\* this order stands for all
FirstDeclaredInOrder(steps) ==
  \A i \in 1..Len(steps) :
    /\ steps[i].id = "b" => \E j \in 1..(i - 1) : steps[j].id = "a"
    /\ steps[i].id = "c" => \E j \in 1..(i - 1) : steps[j].id = "b"

GraphPlans ==
  {p \in PlansOf({DefaultOptions}, GraphSteps, MaxSteps) : FirstDeclaredInOrder(p.steps)}

\* shape family: string-form next, two-key and empty mappings
ShapeSteps ==
  {job(id, next) :
     id \in {NoId, "a", "b"},
     next \in {None, String("a"), String("b"), Mapping(<<>>), Mapping(<<"a">>),
               Mapping(<<"b">>), Mapping(<<"a", "b">>), Mapping(<<"b", "a">>)}}

ShapePlans == PlansOf({DefaultOptions}, ShapeSteps, MaxFieldSteps)

\* field family: adaptor, expression, name and an unrecognized key vary
FieldKinds ==
  {<<Undefined, ".", Undefined, FALSE>>,
   <<"some-adaptor", Undefined, Undefined, FALSE>>,
   <<"some-adaptor", "", Undefined, FALSE>>,
   <<"some-adaptor", ".", Undefined, FALSE>>,
   <<Undefined, ".", Undefined, TRUE>>,
   <<"some-adaptor", Undefined, Undefined, TRUE>>,
   <<"Ad", Number123, "St", FALSE>>,
   <<Undefined, Undefined, "step", FALSE>>}

FieldSteps ==
  {Step(id, next, k[1], k[2], k[3], k[4]) :
     id \in {NoId, "a"}, next \in {None}, k \in FieldKinds}
  \cup
  {Step(id, next, k[1], k[2], Undefined, FALSE) :
     id \in {"a"}, next \in {Mapping(<<"a">>), Mapping(<<"b">>)},
     k \in {<<Undefined, ".">>, <<"some-adaptor", Undefined>>}}

FieldOptions ==
  {DefaultOptions, Options("a", <<>>, FALSE), Options("c", <<>>, FALSE),
   Options(Undefined, <<>>, TRUE), Options(Undefined, <<-5>>, FALSE),
   Options("c", <<0>>, TRUE)}

FieldPlans == PlansOf(FieldOptions, FieldSteps, MaxFieldSteps)

(***************************************************************************)
(* The lifecycle of one run (packages/engine-multi, api/lifecycle and       *)
(* api/execute).  A context holds the run's state and its outward event     *)
(* surface; `emitted` is what a subscriber of that surface has received, in *)
(* order.  An optional number (startTime, duration) is <<>> while unset and *)
(* <<n>> once set.  Date.now() is the variable `clock`.                     *)
(***************************************************************************)
\* the test's contexts start a second after their startTime
Earlier == 1000

WORKFLOW_START == "worker:workflow-start"
WORKFLOW_COMPLETE == "worker:workflow-complete"
LOG == "worker:log"

\* status of a run that no start event has reached
Pending == "pending"

WorkflowState(id, startTime) ==
  [id |-> id, status |-> Pending, startTime |-> startTime, duration |-> <<>>,
   threadId |-> Undefined, result |-> Undefined]

\* new ExecutionContext({ state: state || { id: workflowId }, ... })
createContext(workflowId, given) ==
  [state |-> IF given = <<>> THEN WorkflowState(workflowId, <<>>) ELSE given[1],
   emitted |-> <<>>]

\* context.emit(name, payload)
emit(context, name, payload) ==
  [context EXCEPT !.emitted = Append(@, [name |-> name, payload |-> payload])]

\* on start: status, startTime, duration and threadId are set; the event is
\* passed on as it came.  Nothing rejects a start on a running context.
workflowStart(context, evt) ==
  emit([context EXCEPT !.state.status = "running",
                       !.state.startTime = <<clock>>,
                       !.state.duration = <<-1>>,
                       !.state.threadId = evt.threadId],
       "workflow-start",
       [workflowId |-> evt.workflowId, threadId |-> evt.threadId])

\* on complete: requires startTime to have been set
workflowComplete(context, evt) ==
  LET duration == clock - context.state.startTime[1]
  IN emit([context EXCEPT !.state.status = "done",
                          !.state.result = evt.state,
                          !.state.duration = <<duration>>],
          "workflow-complete",
          [workflowId |-> evt.workflowId, state |-> evt.state,
           duration |-> duration, threadId |-> evt.threadId])

\* on log: { workflowId, threadId, ...message }, no state change
log(context, evt) ==
  emit(context, "workflow-log",
       [workflowId |-> evt.workflowId, threadId |-> evt.threadId,
        level |-> evt.message.level, name |-> evt.message.name,
        message |-> evt.message.message, time |-> evt.message.time])

\* variants of the handler map of execute with one handler wired wrongly
eventsStartAsLog(context, evt) ==
  CASE evt.type = WORKFLOW_START -> emit(context, "workflow-log", evt.payload)
    [] evt.type = WORKFLOW_COMPLETE -> workflowComplete(context, evt.payload)
    [] evt.type = LOG -> log(context, evt.payload)

eventsCompleteDropped(context, evt) ==
  CASE evt.type = WORKFLOW_START -> workflowStart(context, evt.payload)
    [] evt.type = WORKFLOW_COMPLETE -> context
    [] evt.type = LOG -> log(context, evt.payload)

eventsLogAsStart(context, evt) ==
  CASE evt.type = WORKFLOW_START -> workflowStart(context, evt.payload)
    [] evt.type = WORKFLOW_COMPLETE -> workflowComplete(context, evt.payload)
    [] evt.type = LOG -> workflowStart(context, evt.payload)

\* a variant whose log handler passes a log on twice
eventsLogTwice(context, evt) ==
  CASE evt.type = WORKFLOW_START -> workflowStart(context, evt.payload)
    [] evt.type = WORKFLOW_COMPLETE -> workflowComplete(context, evt.payload)
    [] evt.type = LOG -> log(log(context, evt.payload), evt.payload)

\* a variant whose start handler ignores a start on a running context
eventsStartOnce(context, evt) ==
  CASE evt.type = WORKFLOW_START ->
         IF context.state.status = "running" THEN context
         ELSE workflowStart(context, evt.payload)
    [] evt.type = WORKFLOW_COMPLETE -> workflowComplete(context, evt.payload)
    [] evt.type = LOG -> log(context, evt.payload)

\* a variant whose log handler also closes the run
eventsLogAsComplete(context, evt) ==
  CASE evt.type = WORKFLOW_START -> workflowStart(context, evt.payload)
    [] evt.type = WORKFLOW_COMPLETE -> workflowComplete(context, evt.payload)
    [] evt.type = LOG ->
         IF context.state.startTime = <<>> THEN log(context, evt.payload)
         ELSE workflowComplete(context,
                [workflowId |-> evt.payload.workflowId,
                 threadId |-> evt.payload.threadId, state |-> Undefined])

\* the handler map execute hands to callWorker, applied to one worker event
events(context, evt) ==
  CASE evt.type = WORKFLOW_START -> workflowStart(context, evt.payload)
    [] evt.type = WORKFLOW_COMPLETE -> workflowComplete(context, evt.payload)
    [] evt.type = LOG -> log(context, evt.payload)

\* what the worker sends
ThreadIds == {"1", "123"}
Results == {"{a:777}", "{}"}
Messages ==
  {[level |-> l, name |-> "job", message |-> <<"oh hai">>, time |-> clock] :
     l \in {"info", "error"}}

NoEvent == [type |-> "none", payload |-> <<>>]

\* the contexts of the lifecycle test: fresh, or given a startTime in the past
Contexts ==
  {createContext("a", <<>>),
   createContext("a", <<WorkflowState("a", <<clock - Earlier>>)>>)}

\* no run is under way
LifecycleIdle ==
  /\ clock = Earlier + 1
  /\ state = createContext("a", <<>>).state
  /\ emitted = <<>>
  /\ event = NoEvent
  /\ delivered = 0
  /\ logged = <<>>
  /\ history = <<>>

\* execute has not been called
ExecuteIdle ==
  /\ pc = "idle"
  /\ workflow = [noCompile |-> FALSE, jobs |-> <<>>]
  /\ adaptorPaths = <<>>
  /\ compiled = <<>>
  /\ dispatched = 0

\* no error has been constructed
ErrorsIdle == constructed = <<>>

\* no second context exists
PoolIdle ==
  /\ heap = <<>>
  /\ contexts = <<>>
  /\ solo = <<>>

\* no plan is being validated
ValidateIdle ==
  /\ plan = [options |-> DefaultOptions, steps |-> <<>>]
  /\ calls = 0
  /\ outcome = NoThrow
  /\ warnings = <<>>
  /\ first = NoThrow

(***************************************************************************)
(* The state machine of validate                                            *)
(***************************************************************************)
Init ==
  /\ \/ plan \in GraphPlans
     \/ plan \in ShapePlans
     \/ plan \in FieldPlans
  /\ calls = 0
  /\ outcome = NoThrow
  /\ warnings = <<>>
  /\ first = NoThrow
  /\ LifecycleIdle
  /\ ExecuteIdle /\ ErrorsIdle /\ PoolIdle

Validate ==
  /\ calls < MaxCalls
  /\ LET r == validate(plan)
     IN /\ outcome' = r.outcome
        /\ warnings' = r.warnings
        /\ first' = IF calls = 0 THEN r.outcome ELSE first
  /\ calls' = calls + 1
  /\ UNCHANGED plan
  /\ UNCHANGED <<lifecycleVars, executeVars, errorVars, poolVars>>

Next == Validate

Spec == Init /\ [][Next]_vars

(***************************************************************************)
(* The state machine of one run: the worker's events reach the handler map  *)
(* of execute one at a time, in any order and with any delay.               *)
(***************************************************************************)
InitLifecycle ==
  /\ clock = Earlier + 1
  /\ \E context \in Contexts : state = context.state /\ emitted = context.emitted
  /\ event = NoEvent
  /\ delivered = 0
  /\ logged = <<>>
  /\ history = <<>>
  /\ ValidateIdle
  /\ ExecuteIdle /\ ErrorsIdle /\ PoolIdle

\* one worker event goes through the handler map
Deliver(evt) ==
  /\ delivered < MaxEvents
  /\ LET context == events([state |-> state, emitted |-> emitted], evt)
     IN state' = context.state /\ emitted' = context.emitted
  /\ event' = evt
  /\ history' = Append(history, evt)
  /\ delivered' = delivered + 1
  /\ UNCHANGED <<clock, logged>>
  /\ UNCHANGED <<validateVars, executeVars, errorVars, poolVars>>

OnWorkflowStart ==
  \E threadId \in ThreadIds :
    Deliver([type |-> WORKFLOW_START,
             payload |-> [workflowId |-> state.id, threadId |-> threadId]])

OnWorkflowComplete ==
  /\ state.startTime # <<>>
  /\ \E threadId \in ThreadIds, result \in Results :
       Deliver([type |-> WORKFLOW_COMPLETE,
                payload |-> [workflowId |-> state.id, threadId |-> threadId,
                             state |-> result]])

OnLog ==
  \E threadId \in ThreadIds, message \in Messages :
    Deliver([type |-> LOG,
             payload |-> [workflowId |-> state.id, threadId |-> threadId,
                          message |-> message]])

\* the callWorker promise rejects: execute only logs the error
CallWorkerRejected ==
  /\ logged = <<>>
  /\ logged' = <<"error">>
  /\ UNCHANGED <<state, emitted, clock, event, delivered, history>>
  /\ UNCHANGED <<validateVars, executeVars, errorVars, poolVars>>

\* a millisecond passes
Tick ==
  /\ clock < Earlier + 1 + MaxTicks
  /\ clock' = clock + 1
  /\ UNCHANGED <<state, emitted, event, delivered, logged, history>>
  /\ UNCHANGED <<validateVars, executeVars, errorVars, poolVars>>

NextLifecycle ==
  \/ OnWorkflowStart
  \/ OnWorkflowComplete
  \/ OnLog
  \/ CallWorkerRejected
  \/ Tick

SpecLifecycle == InitLifecycle /\ [][NextLifecycle]_vars

(***************************************************************************)
(* The state machine of two runs side by side: two contexts are created,    *)
(* each around its own state object, and the worker events of the two runs  *)
(* reach their handler maps in any interleaving.  `heap` holds the state    *)
(* objects by address, `contexts` holds for each context the address of its *)
(* state and its outward events, and `solo` is what each context would be   *)
(* had it received its own events alone.                                    *)
(***************************************************************************)
ContextNames == {"A", "B"}

\* the workflow and the worker thread of each of the two runs
WorkflowIds == [A |-> "a", B |-> "b"]
Threads == [A |-> "1", B |-> "123"]

\* the state a test hands to createContext: none, or one started a second ago
Givens(workflowId) ==
  {<<>>, <<WorkflowState(workflowId, <<clock - Earlier>>)>>}

\* a variant in which every context is built around the first state object
stateRefShared(h, workflowId, given) == 1

\* state: state || { id: workflowId } is a new object for every context:
\* the literal, or the object the caller has just made for this context
stateRef(h, workflowId, given) == Len(h) + 1

\* new ExecutionContext({ state, ... }) on the heap h: the context keeps a
\* reference to its state object
newContext(h, workflowId, given) ==
  LET context == createContext(workflowId, given)
      ref == stateRef(h, workflowId, given)
  IN [heap |-> IF ref > Len(h) THEN Append(h, context.state) ELSE h,
      context |-> [state |-> ref, emitted |-> context.emitted]]

\* the context named c as the handlers see it
Resolve(c) == [state |-> heap[contexts[c].state], emitted |-> contexts[c].emitted]

InitTwo ==
  /\ clock = Earlier + 1
  /\ \E givenA \in Givens(WorkflowIds.A), givenB \in Givens(WorkflowIds.B) :
       LET a == newContext(<<>>, WorkflowIds.A, givenA)
           b == newContext(a.heap, WorkflowIds.B, givenB)
       IN /\ heap = b.heap
          /\ contexts = [A |-> a.context, B |-> b.context]
          /\ solo = [A |-> createContext(WorkflowIds.A, givenA),
                     B |-> createContext(WorkflowIds.B, givenB)]
  /\ state = createContext("a", <<>>).state
  /\ emitted = <<>>
  /\ event = NoEvent
  /\ delivered = 0
  /\ logged = <<>>
  /\ history = <<>>
  /\ ValidateIdle
  /\ ExecuteIdle /\ ErrorsIdle

\* one worker event of the run of context c goes through c's handler map:
\* the handlers write to the state object the context refers to
DeliverTo(c, evt) ==
  /\ delivered < MaxEvents
  /\ LET ref == contexts[c].state
         context == events(Resolve(c), evt)
     IN /\ heap' = [heap EXCEPT ![ref] = context.state]
        /\ contexts' = [contexts EXCEPT ![c].emitted = context.emitted]
  /\ solo' = [solo EXCEPT ![c] = events(@, evt)]
  /\ delivered' = delivered + 1
  /\ UNCHANGED <<state, emitted, clock, event, logged, history>>
  /\ UNCHANGED <<validateVars, executeVars, errorVars>>

StartOn ==
  \E c \in ContextNames :
    DeliverTo(c, [type |-> WORKFLOW_START,
                  payload |-> [workflowId |-> WorkflowIds[c],
                               threadId |-> Threads[c]]])

CompleteOn ==
  \E c \in ContextNames :
    /\ Resolve(c).state.startTime # <<>>
    /\ \E result \in Results :
         DeliverTo(c, [type |-> WORKFLOW_COMPLETE,
                       payload |-> [workflowId |-> WorkflowIds[c],
                                    threadId |-> Threads[c],
                                    state |-> result]])

LogOn ==
  \E c \in ContextNames, message \in Messages :
    DeliverTo(c, [type |-> LOG,
                  payload |-> [workflowId |-> WorkflowIds[c],
                               threadId |-> Threads[c],
                               message |-> message]])

\* a millisecond passes for both runs
TickTwo ==
  /\ clock < Earlier + 1 + MaxTicks
  /\ clock' = clock + 1
  /\ UNCHANGED <<state, emitted, event, delivered, logged, history>>
  /\ UNCHANGED <<validateVars, executeVars, errorVars, poolVars>>

NextTwo ==
  \/ StartOn
  \/ CompleteOn
  \/ LogOn
  \/ TickTwo

SpecTwo == InitTwo /\ [][NextTwo]_vars

(***************************************************************************)
(* The state machine of one call of execute: autoinstall, then compile,     *)
(* then callWorker with the handler map, then the worker's events until the *)
(* promise callWorker returned settles.  `workflow` is state.plan.jobs (one *)
(* flag per job: it has an expression) with options.noCompile;              *)
(* `adaptorPaths` is what autoinstall returned; `compiled` is the list of   *)
(* the jobs the loop of compile has passed so far, each either compiled or  *)
(* skipped.                                                                 *)
(***************************************************************************)
\* the plans execute is given
Workflows ==
  {[noCompile |-> n, jobs |-> j] :
     n \in BOOLEAN,
     j \in UNION {[1..k -> BOOLEAN] : k \in 0..MaxJobs}}

InitExecute ==
  /\ pc = "autoinstall"
  /\ workflow \in Workflows
  /\ adaptorPaths = <<>>
  /\ compiled = <<>>
  /\ dispatched = 0
  /\ LifecycleIdle
  /\ ValidateIdle /\ ErrorsIdle /\ PoolIdle

\* const adaptorPaths = await autoinstall(context)
AutoinstallResolves ==
  /\ pc = "autoinstall"
  /\ adaptorPaths' = <<"paths">>
  /\ pc' = "compile"
  /\ UNCHANGED <<workflow, compiled, dispatched>>
  /\ UNCHANGED <<validateVars, lifecycleVars, errorVars, poolVars>>

\* the await throws: execute rejects
AutoinstallRejects ==
  /\ pc = "autoinstall"
  /\ pc' = "rejected"
  /\ UNCHANGED <<workflow, adaptorPaths, compiled, dispatched>>
  /\ UNCHANGED <<validateVars, lifecycleVars, errorVars, poolVars>>

\* compile: the loop runs when noCompile is off and there are jobs
compileLoops == ~workflow.noCompile /\ Len(workflow.jobs) > 0

\* one turn of the loop: await compileJob for a job with an expression
CompileJob ==
  /\ pc = "compile" /\ compileLoops
  /\ Len(compiled) < Len(workflow.jobs)
  /\ compiled' = Append(compiled,
                        IF workflow.jobs[Len(compiled) + 1] THEN "compiled" ELSE "skipped")
  /\ UNCHANGED <<pc, workflow, adaptorPaths, dispatched>>
  /\ UNCHANGED <<validateVars, lifecycleVars, errorVars, poolVars>>

\* a variant in which the failure of compileJob is swallowed
CompileRejectsSwallowed ==
  /\ pc = "compile" /\ compileLoops
  /\ Len(compiled) < Len(workflow.jobs)
  /\ workflow.jobs[Len(compiled) + 1]
  /\ pc' = "callWorker"
  /\ UNCHANGED <<workflow, adaptorPaths, compiled, dispatched>>
  /\ UNCHANGED <<validateVars, lifecycleVars, errorVars, poolVars>>

\* compileJob throws: compile rejects, and with it execute
CompileRejects ==
  /\ pc = "compile" /\ compileLoops
  /\ Len(compiled) < Len(workflow.jobs)
  /\ workflow.jobs[Len(compiled) + 1]
  /\ pc' = "rejected"
  /\ UNCHANGED <<workflow, adaptorPaths, compiled, dispatched>>
  /\ UNCHANGED <<validateVars, lifecycleVars, errorVars, poolVars>>

\* await compile(context) returns
CompileResolves ==
  /\ pc = "compile"
  /\ compileLoops => Len(compiled) = Len(workflow.jobs)
  /\ pc' = "callWorker"
  /\ UNCHANGED <<workflow, adaptorPaths, compiled, dispatched>>
  /\ UNCHANGED <<validateVars, lifecycleVars, errorVars, poolVars>>

\* callWorker('run', [state.plan, adaptorPaths], events)
CallWorker ==
  /\ pc = "callWorker"
  /\ dispatched' = dispatched + 1
  /\ pc' = "run"
  /\ UNCHANGED <<workflow, adaptorPaths, compiled>>
  /\ UNCHANGED <<validateVars, lifecycleVars, errorVars, poolVars>>

\* the worker's events reach the handler map while the call is pending
WorkerEvent ==
  /\ pc = "run"
  /\ \/ OnWorkflowStart
     \/ OnWorkflowComplete
     \/ OnLog

\* the promise of callWorker resolves, and execute with it
CallWorkerResolves ==
  /\ pc = "run"
  /\ pc' = "resolved"
  /\ UNCHANGED <<workflow, adaptorPaths, compiled, dispatched>>
  /\ UNCHANGED <<validateVars, lifecycleVars, errorVars, poolVars>>

\* the promise of callWorker rejects: the catch logs the error and execute
\* resolves
CallWorkerCatch ==
  /\ pc = "run"
  /\ logged' = Append(logged, "error")
  /\ pc' = "resolved"
  /\ UNCHANGED <<workflow, adaptorPaths, compiled, dispatched>>
  /\ UNCHANGED <<state, emitted, clock, event, delivered, history>>
  /\ UNCHANGED <<validateVars, errorVars, poolVars>>

NextExecute ==
  \/ AutoinstallResolves
  \/ AutoinstallRejects
  \/ CompileJob
  \/ CompileRejects
  \/ CompileResolves
  \/ CallWorker
  \/ WorkerEvent
  \/ CallWorkerResolves
  \/ CallWorkerCatch

SpecExecute == InitExecute /\ [][NextExecute]_vars

(***************************************************************************)
(* The errors of the engine.  An instance is the record of its fields: the  *)
(* fields of the base class are set first, those the subclass declares      *)
(* replace them, and the constructor's assignments come last.               *)
(***************************************************************************)
\* the fields of the right-hand record, replaced by those of the left-hand one
Fields(own, base) == own @@ base

EngineError == [source |-> "engine", severity |-> "-"]

TimeoutError(durationInMs) ==
  Fields([severity |-> "kill", type |-> "TimeoutError", duration |-> durationInMs,
          message |-> IF durationInMs # 0
                        THEN "Workflow failed to return within "
                               \o ToString(durationInMs) \o "ms"
                        ELSE "Workflow failed to return within the specified time limit"],
         EngineError)

ExecutionError(original) ==
  Fields([severity |-> "exception", type |-> "ExecutionError",
          name |-> "ExecutionError", original |-> original,
          message |-> original.message],
         EngineError)

\* a variant that takes over the severity of the error it wraps
CompileErrorInherits(error, jobId) ==
  Fields([severity |-> IF error.severity # Undefined THEN error.severity ELSE "crash",
          type |-> "CompileError", jobId |-> jobId,
          message |-> jobId \o ": " \o error.message,
          subtype |-> IF error.type \notin {Undefined, ""} THEN error.type
                      ELSE error.constructorName],
         EngineError)

CompileError(error, jobId) ==
  Fields([severity |-> "crash", type |-> "CompileError", jobId |-> jobId,
          message |-> jobId \o ": " \o error.message,
          subtype |-> IF error.type \notin {Undefined, ""} THEN error.type
                      ELSE error.constructorName],
         EngineError)

AutoinstallError(specifier, error) ==
  Fields([severity |-> "exception", type |-> "AutoinstallError",
          name |-> "AutoinstallError",
          message |-> "Error installing " \o specifier \o ": " \o error.message],
         EngineError)

OOMError ==
  Fields([severity |-> "kill", type |-> "OOMError", name |-> "OOMError",
          message |-> "Run exceeded maximum memory usage"],
         EngineError)

ExitError(code) ==
  Fields([severity |-> "crash", type |-> "ExitError", name |-> "ExitError",
          code |-> code, stack |-> "",
          message |-> "Process exited with code: " \o ToString(code)],
         EngineError)

\* the arguments the constructors are called with
Durations == {0, 1, 5000}
ExitCodes == {0, 1, 137}
Specifiers == {"@openfn/language-common@1.0.0", "x"}
JobIds == {"a", "job-1"}
\* errors caught and wrapped: plain ones, and one that is itself an engine error
Originals ==
  {[message |-> m, type |-> Undefined, constructorName |-> "Error", severity |-> Undefined] :
     m \in {"", "kill", "Unexpected token"}}
  \cup {[message |-> "severity: kill", type |-> "TimeoutError",
         constructorName |-> "TimeoutError", severity |-> "kill"],
        [message |-> "no", type |-> "", constructorName |-> "SyntaxError",
         severity |-> "-"]}

(***************************************************************************)
(* The state machine of the errors: the engine constructs one error after   *)
(* another.                                                                 *)
(***************************************************************************)
InitErrors ==
  /\ constructed = <<>>
  /\ ValidateIdle /\ LifecycleIdle /\ ExecuteIdle /\ PoolIdle

Construct(error) ==
  /\ Len(constructed) < MaxErrors
  /\ constructed' = Append(constructed, error)
  /\ UNCHANGED <<validateVars, lifecycleVars, executeVars, poolVars>>

NewTimeoutError == \E d \in Durations : Construct(TimeoutError(d))
NewExecutionError == \E o \in Originals : Construct(ExecutionError(o))
NewCompileError == \E e \in Originals, j \in JobIds : Construct(CompileError(e, j))
NewAutoinstallError ==
  \E s \in Specifiers, e \in Originals : Construct(AutoinstallError(s, e))
NewOOMError == Construct(OOMError)
NewExitError == \E c \in ExitCodes : Construct(ExitError(c))

NextErrors ==
  \/ NewTimeoutError
  \/ NewExecutionError
  \/ NewCompileError
  \/ NewAutoinstallError
  \/ NewOOMError
  \/ NewExitError

SpecErrors == InitErrors /\ [][NextErrors]_vars

(***************************************************************************)
(* What the specification says of a plan, read off the plan itself          *)
(***************************************************************************)
Called == calls > 0

StepIdx(p) == 1..Len(p.steps)

\* the ids declared by steps
Declared(p) == {p.steps[i].id : i \in StepIdx(p)} \ {NoId}

\* mapping-form next edges of the steps that have an id
Edges(p) ==
  UNION {{<<p.steps[i].id, t>> : t \in Range(p.steps[i].next.keys)} :
           i \in {j \in StepIdx(p) : p.steps[j].id # NoId /\ p.steps[j].next.form = "map"}}

Compose(R) ==
  R \cup {e \in Ids \X Ids : \E y \in Ids : <<e[1], y>> \in R /\ <<y, e[2]>> \in R}

RECURSIVE Closure(_, _)
Closure(R, n) == IF n = 0 THEN R ELSE Closure(Compose(R), n - 1)

\* y is reachable from x along one or more edges
Reaches(p) == Closure(Edges(p), Cardinality(Ids))

HasCycle(p) == \E x \in Ids : <<x, x>> \in Reaches(p)

\* the edges x -> y that lie on a cycle
CycleEdges(p) == {e \in Edges(p) : e[1] = e[2] \/ <<e[2], e[1]>> \in Reaches(p)}

\* every violation of the schemas, as <<path, message>>
Violations(p) ==
  {<<"options.timeout", "Timeout must be a non-negative number">> : x \in
      {y \in {1} : p.options.timeout # <<>> /\ p.options.timeout[1] < 0}}
  \cup {<<"workflow.steps." \o ToString(i - 1) \o ".name",
          "Name must be at least 3 characters long">> :
          i \in {j \in StepIdx(p) : p.steps[j].name \in {"", "S", "St"}}}
  \cup {<<"workflow.steps." \o ToString(i - 1) \o ".adaptor",
          "Adaptor must be at least 3 characters long">> :
          i \in {j \in StepIdx(p) : p.steps[j].adaptor \in {"", "A", "Ad"}}}
  \cup {<<"workflow.steps." \o ToString(i - 1) \o ".expression",
          "Expected string, received number">> :
          i \in {j \in StepIdx(p) : p.steps[j].expression = Number123}}

SchemaValid(p) == Violations(p) = {}

StartOk(p) == p.options.start = Undefined \/ p.options.start \in Declared(p)

\* every id a next names, in string or mapping form, in step order
RECURSIVE References(_, _)
References(p, i) ==
  IF i > Len(p.steps) THEN <<>>
  ELSE p.steps[i].next.keys \o References(p, i + 1)

Missing(p) == Range(References(p, 1)) \ Declared(p)

TargetsDeclared(p) == Missing(p) = {}

\* the messages of each check
StartErrors == {ValidationError("Could not find start job: " \o s) : s \in Ids}
UnknownJobErrors == {ValidationError("Cannot find job: " \o s) : s \in Ids}
Circular(x, y) == ValidationError("Circular dependency: " \o x \o " <-> " \o y)
CircularErrors == {Circular(e[1], e[2]) : e \in Ids \X Ids}
Multiple(id) == ValidationError("Multiple dependencies detected for: " \o id)

(***************************************************************************)
(* Claims                                                                   *)
(***************************************************************************)

\* C1: a schema-valid plan (whose start and next targets exist, so that the
\* cycle check is reached) in which some id is reachable from itself along
\* mapping-form edges makes validate raise 'Circular dependency: x <-> y'
\* for an edge x -> y on a cycle, wherever the cycle sits.
C1_CycleAlwaysReported ==
  (Called /\ SchemaValid(plan) /\ StartOk(plan) /\ TargetsDeclared(plan) /\ HasCycle(plan))
    => \E e \in CycleEdges(plan) : outcome = Circular(e[1], e[2])

\* C2: a call of validate ends by returning true or by raising a
\* ValidationError, and by nothing else: the cycle search never recurses
\* without bound.
C2_TrueOrValidationError ==
  Called => outcome.kind \in {"true", "ValidationError"}

\* every next is absent or in mapping form
MappingOnly(p) == \A i \in StepIdx(p) : p.steps[i].next.form \in {"none", "map"}

\* the ids with two or more upstream neighbours in the mapping-form graph
FanInIds(p) == {y \in Ids : Cardinality({e \in Edges(p) : e[2] = y}) >= 2}

\* the steps whose next, in either form, names y
NamedBy(p, y) == {i \in StepIdx(p) : y \in Range(p.steps[i].next.keys)}

\* a step with a non-empty adaptor and no expression, or an empty one
Uncoupled(step) ==
  step.adaptor \notin {Undefined, ""} /\ step.expression \in {Undefined, ""}

StepKeysOk(p) == \A i \in StepIdx(p) : ~Uncoupled(p.steps[i]) /\ ~p.steps[i].extra

\* no two steps carry the same id value, undefined being a value like any other
NoRepeatedId(p) == \A i, j \in StepIdx(p) : i < j => p.steps[i].id # p.steps[j].id

\* the first id, in step and key order, that a next names and no step declares
FirstMissing(p) ==
  LET refs == References(p, 1)
      k == CHOOSE i \in 1..Len(refs) :
             refs[i] \notin Declared(p) /\ \A j \in 1..(i - 1) : refs[j] \in Declared(p)
  IN refs[k]

AllIds == Ids \cup {NoId}

KeyErrors ==
  {ValidationError("Invalid key 'invalidKey' found in step with id '" \o id \o "'.") :
     id \in AllIds}

Coupling(step) ==
  ValidationError("Step with adaptor '" \o step.adaptor
                  \o "' must have an expression. Step id: '" \o step.id \o "'.")

CouplingErrors ==
  {Coupling([adaptor |-> a, id |-> id]) : a \in {"some-adaptor"}, id \in AllIds}

Duplicate(id) == ValidationError("Duplicate step ID detected: " \o id)
DuplicateErrors == {Duplicate(id) : id \in AllIds}
MultipleErrors == {Multiple(id) : id \in Ids}

UnreferencedWarnings ==
  {"[Validation Warning]: Unreferenced step detected: " \o id : id \in Ids}
OptionWarning == "Warning: Unrecognized option 'unrecognizedOption'"

\* two steps that both declare an id declare the same one
DupDeclared(p) ==
  \E i, j \in StepIdx(p) : i < j /\ p.steps[i].id # NoId /\ p.steps[i].id = p.steps[j].id

\* the first step, if any, that satisfies Q
FirstStep(p, Q(_)) ==
  CHOOSE i \in StepIdx(p) : Q(p.steps[i]) /\ \A j \in 1..(i - 1) : ~Q(p.steps[j])

HasExtra(step) == step.extra
BadKeys(step) == Uncoupled(step) \/ step.extra

\* the outcomes the order of checks of the specification allows
SpecOrder(p) ==
  IF ~StartOk(p) THEN StartErrors
  ELSE IF HasCycle(p) THEN CircularErrors
  ELSE IF FanInIds(p) # {} THEN MultipleErrors
  ELSE IF \E i \in StepIdx(p) : p.steps[i].extra THEN KeyErrors
  ELSE IF \E i \in StepIdx(p) : Uncoupled(p.steps[i]) THEN CouplingErrors
  ELSE IF DupDeclared(p) THEN DuplicateErrors
  ELSE {Returned}

\* the outcomes the order of checks of the code allows
CodeOrder(p) ==
  IF ~StartOk(p) THEN StartErrors
  ELSE IF ~TargetsDeclared(p) THEN UnknownJobErrors
  ELSE IF HasCycle(p) THEN CircularErrors \cup {RangeError}
  ELSE IF FanInIds(p) # {} THEN MultipleErrors
  ELSE IF \E i \in StepIdx(p) : BadKeys(p.steps[i])
    THEN IF Uncoupled(p.steps[FirstStep(p, BadKeys)]) THEN CouplingErrors ELSE KeyErrors
  ELSE IF ~NoRepeatedId(p) THEN DuplicateErrors
  ELSE {Returned}

\* C6 as stated: the error raised is that of the earliest violated check in
\* the order start, cycle, single input, key whitelist, adaptor/expression,
\* duplicate id, and no unreferenced-step or unrecognized-option warning comes
\* before an error (taken here for plans without a cycle and with at most one
\* step without id, where the defects of C1 and C9 play no part).
C6_SpecOrder ==
  (Called /\ SchemaValid(plan) /\ TargetsDeclared(plan) /\ ~HasCycle(plan)
     /\ Cardinality({i \in StepIdx(plan) : plan.steps[i].id = NoId}) <= 1)
    => /\ outcome \in SpecOrder(plan)
       /\ outcome # Returned =>
            Range(warnings) \cap (UnreferencedWarnings \cup {OptionWarning}) = {}

\* C6 amended: the error raised is that of the earliest violated check in the
\* order start, next-target existence, cycle (a 'Circular dependency' error or
\* the stack overflow of C1), single input, then step by step the
\* adaptor/expression coupling before the key whitelist, then duplicate ids
\* (two steps without id included); an unreferenced-step warning never comes
\* before an error, an unrecognized-option warning only before a duplicate-id error.
C6_CodeOrder ==
  (Called /\ SchemaValid(plan))
    => /\ outcome \in CodeOrder(plan)
       /\ Range(warnings) \cap UnreferencedWarnings # {} => outcome = Returned
       /\ OptionWarning \in Range(warnings)
            => outcome = Returned \/ outcome \in DuplicateErrors

C6_Witness ==
  /\ Called /\ SchemaValid(plan) /\ StartOk(plan) /\ TargetsDeclared(plan)
  /\ \E i \in StepIdx(plan) : Uncoupled(plan.steps[i]) /\ plan.steps[i].extra
  /\ ~NoRepeatedId(plan)
  /\ outcome \in CouplingErrors

\* C7: a plan with a schema violation makes validate raise one
\* ValidationError whose lines are '<path>: <message>' for each and every
\* violation of the plan, and no structural check runs: no warning is emitted.
C7_AllViolationsReported ==
  (Called /\ ~SchemaValid(plan))
    => /\ outcome.kind = "ValidationError"
       /\ Range(outcome.text) = {v[1] \o ": " \o v[2] : v \in Violations(plan)}
       /\ Len(outcome.text) = Cardinality(Violations(plan))
       /\ warnings = <<>>

C7_Witness ==
  /\ Called /\ Cardinality(Violations(plan)) >= 4
  /\ \E v \in Violations(plan) : v[1] = "options.timeout"
  /\ ~StepKeysOk(plan)
  /\ Len(outcome.text) = Cardinality(Violations(plan))

PassesEarlier(p) ==
  /\ SchemaValid(p) /\ StartOk(p) /\ TargetsDeclared(p)
  /\ ~HasCycle(p) /\ FanInIds(p) = {} /\ StepKeysOk(p)

\* C9: on a plan that passes the earlier checks, 'Duplicate step ID
\* detected: <id>' is raised exactly when two steps that both declare an id
\* declare the same one, and it names the first repeated id in step order;
\* steps without id are never duplicates of one another.
C9_DuplicateIffDeclaredTwice ==
  (Called /\ PassesEarlier(plan))
    => /\ outcome \in DuplicateErrors <=> DupDeclared(plan)
       /\ DupDeclared(plan) =>
            LET j == CHOOSE k \in StepIdx(plan) :
                       /\ \E i \in 1..(k - 1) : plan.steps[i].id = plan.steps[k].id
                       /\ plan.steps[k].id # NoId
                       /\ \A l \in 1..(k - 1) :
                            ~(plan.steps[l].id # NoId
                              /\ \E i \in 1..(l - 1) : plan.steps[i].id = plan.steps[l].id)
            IN outcome = Duplicate(plan.steps[j].id)

\* C10 as stated: on a plan that passes the start, next-target, cycle and
\* single-input checks, a step with an adaptor and no expression makes validate
\* raise the adaptor error for the first such step; no other step triggers it.
C10_CouplingRaised ==
  (Called /\ SchemaValid(plan) /\ StartOk(plan) /\ TargetsDeclared(plan)
     /\ ~HasCycle(plan) /\ FanInIds(plan) = {})
    => /\ (\E i \in StepIdx(plan) : Uncoupled(plan.steps[i]))
            => outcome = Coupling(plan.steps[FirstStep(plan, Uncoupled)])
       /\ outcome \in CouplingErrors
            => \E i \in StepIdx(plan) : Uncoupled(plan.steps[i]) /\ outcome = Coupling(plan.steps[i])

\* C10 amended: as stated, provided no step before the first step with an
\* adaptor and no expression carries an unrecognized key; an empty expression
\* counts as no expression.
C10_CouplingRaisedFirst ==
  (Called /\ SchemaValid(plan) /\ StartOk(plan) /\ TargetsDeclared(plan)
     /\ ~HasCycle(plan) /\ FanInIds(plan) = {})
    => /\ (/\ \E i \in StepIdx(plan) : Uncoupled(plan.steps[i])
           /\ \A j \in 1..(FirstStep(plan, Uncoupled) - 1) : ~plan.steps[j].extra)
            => outcome = Coupling(plan.steps[FirstStep(plan, Uncoupled)])
       /\ outcome \in CouplingErrors
            => \E i \in StepIdx(plan) : Uncoupled(plan.steps[i]) /\ outcome = Coupling(plan.steps[i])

C10_Witness ==
  /\ Called /\ Len(plan.steps) >= 2
  /\ plan.steps[1].adaptor # Undefined /\ ~Uncoupled(plan.steps[1])
  /\ Uncoupled(plan.steps[2]) /\ plan.steps[2].expression = ""
  /\ outcome = Coupling(plan.steps[2])

\* C11: on a schema-valid plan whose options.start names no declared step,
\* validate raises 'Could not find start job: <start>' and nothing has been
\* checked (or warned about) before it; when start is absent or names a
\* declared step, no start error is raised.
C11_StartCheckedFirst ==
  (Called /\ SchemaValid(plan))
    => /\ ~StartOk(plan)
            => /\ outcome = ValidationError("Could not find start job: " \o plan.options.start)
               /\ warnings = <<>>
       /\ StartOk(plan) => outcome \notin StartErrors

\* an unknown start on a plan that also carries an invalid key
C11_Witness ==
  /\ Called /\ SchemaValid(plan) /\ ~StartOk(plan) /\ ~StepKeysOk(plan)
  /\ plan.steps # <<>> /\ plan.options.extra
  /\ outcome \in StartErrors

\* a declared id that no mapping-form edge leaves or enters
Isolated(p, id) ==
  id \in Declared(p) /\ \A e \in Edges(p) : e[1] # id /\ e[2] # id

\* the plan shows one of the three irregularities that are only warned about
HasWarnedKind(p) ==
  p.steps = <<>> \/ p.options.extra \/ \E id \in Ids : Isolated(p, id)

\* the plan with an unrecognized key added under options
WithOption(p) == [p EXCEPT !.options.extra = TRUE]

\* C12: a plan whose only irregularities are an empty step list, an
\* unrecognized option key or an unreferenced step validates to true, and
\* adding an unrecognized option key to any plan leaves its result unchanged.
C12_WarningsNeverFatal ==
  Called
    => /\ (/\ SchemaValid(plan) /\ StartOk(plan) /\ TargetsDeclared(plan)
           /\ ~HasCycle(plan) /\ FanInIds(plan) = {} /\ StepKeysOk(plan)
           /\ ~DupDeclared(plan) /\ HasWarnedKind(plan))
            => outcome = Returned
       /\ validate(WithOption(plan)).outcome = outcome

Unreferenced(id) == "[Validation Warning]: Unreferenced step detected: " \o id

\* C13: when validate runs to the end (every check before the last one
\* passes), it returns true and has warned 'Unreferenced step detected: <id>'
\* for every declared id that is in no up set and no down set and has an empty
\* down set, and for no other id.
C13_UnreferencedWarned ==
  (Called /\ PassesEarlier(plan) /\ NoRepeatedId(plan))
    => /\ outcome = Returned
       /\ Range(warnings) \cap UnreferencedWarnings
            = {Unreferenced(id) : id \in {i \in Ids : Isolated(plan, i)}}

\* two unreferenced steps in one plan
C13_Witness ==
  /\ Called /\ outcome = Returned
  /\ \E i, j \in Ids :
       /\ i # j /\ Isolated(plan, i) /\ Isolated(plan, j)
       /\ {Unreferenced(i), Unreferenced(j)} \subseteq Range(warnings)

\* every next is absent or in string form, and one at least is a string
StringOnly(p) ==
  /\ \A i \in StepIdx(p) : p.steps[i].next.form \in {"none", "string"}
  /\ \E i \in StepIdx(p) : p.steps[i].next.form = "string"

\* the same plan with every string-form next written in mapping form
AsMapping(p) ==
  [p EXCEPT !.steps = [i \in StepIdx(p) |->
     IF p.steps[i].next.form = "string"
       THEN [p.steps[i] EXCEPT !.next = Mapping(p.steps[i].next.keys)]
       ELSE p.steps[i]]]

\* C14: on a plan whose string-form edges alone form a cycle or a fan-in,
\* buildModel enters no up or down edge and validate returns true, while the
\* same plan with these edges in mapping form has them reported as a circular
\* or a multiple dependency.
C14_StringFormAsymmetry ==
  (/\ Called /\ SchemaValid(plan) /\ StartOk(plan) /\ TargetsDeclared(plan)
   /\ StepKeysOk(plan) /\ NoRepeatedId(plan) /\ StringOnly(plan)
   /\ (HasCycle(AsMapping(plan)) \/ FanInIds(AsMapping(plan)) # {}))
    => /\ outcome = Returned
       /\ \A i \in Ids : /\ buildModel(plan).model.up[i] = <<>>
                         /\ buildModel(plan).model.down[i] = <<>>
       /\ validate(AsMapping(plan)).outcome \in CircularErrors \cup MultipleErrors

\* a step without id whose next is a mapping
AnonMapping(step) == step.id = NoId /\ step.next.form = "map"

\* C15: on a plan with a step that has no id and a mapping-form next, a
\* target that no step declares is reported; otherwise the model has no node
\* for the step and its up and down sets hold exactly the edges of the steps
\* that have an id, so a fan-in or a cycle is only ever found among those.
C15_AnonymousEdgesDropped ==
  (/\ Called /\ SchemaValid(plan) /\ StartOk(plan)
   /\ \E i \in StepIdx(plan) : AnonMapping(plan.steps[i]))
    => /\ (\E i \in StepIdx(plan) :
             /\ AnonMapping(plan.steps[i])
             /\ ~(Range(plan.steps[i].next.keys) \subseteq Declared(plan)))
            => outcome \in UnknownJobErrors
       /\ TargetsDeclared(plan)
            => LET m == buildModel(plan).model
               IN /\ NoId \notin Range(m.keys)
                  /\ \A t \in Ids :
                       /\ Range(m.up[t]) = {e[1] : e \in {f \in Edges(plan) : f[2] = t}}
                       /\ Range(m.down[t]) = {e[2] : e \in {f \in Edges(plan) : f[1] = t}}
                  /\ \A t \in Ids : outcome = Multiple(t) => t \in FanInIds(plan)
                  /\ outcome \in CircularErrors \cup {RangeError} => HasCycle(plan)

\* a step without id and a step with an id name the same target, and validate
\* returns true
C15_Witness ==
  /\ Called /\ outcome = Returned
  /\ \E i, j \in StepIdx(plan), t \in Ids :
       /\ AnonMapping(plan.steps[i]) /\ t \in Range(plan.steps[i].next.keys)
       /\ plan.steps[j].id \in Ids /\ plan.steps[j].next.form = "map"
       /\ t \in Range(plan.steps[j].next.keys)

(***************************************************************************)
(* Claims about the lifecycle of a run                                      *)
(***************************************************************************)
\* this step delivers a worker event of the given type
Delivers(type) == delivered' = delivered + 1 /\ event'.type = type

\* the outward events of the given name received so far
Outward(name) == {i \in 1..Len(emitted) : emitted[i].name = name}

\* no start event has been handled on the context
NoPriorStart == Outward("workflow-start") = {}

\* C16: a start event handled on a context with no prior start sets status
\* to 'running', startTime to the current time, duration to -1 and threadId
\* to the event's threadId, leaves id and result alone, and emits exactly one
\* outward event, workflow-start, whose payload is the incoming event.
C16_StartApplied ==
  [][(Delivers(WORKFLOW_START) /\ NoPriorStart)
       => /\ state' = [state EXCEPT !.status = "running",
                                    !.startTime = <<clock>>,
                                    !.duration = <<-1>>,
                                    !.threadId = event'.payload.threadId]
          /\ emitted' = Append(emitted, [name |-> "workflow-start",
                                         payload |-> event'.payload])]_vars

C16_Witness ==
  /\ event.type = WORKFLOW_START /\ delivered = 1
  /\ state.status = "running" /\ state.threadId = "123"
  /\ Len(emitted) = 1 /\ emitted[1].name = "workflow-start"

\* what a complete event does, whatever the duration comes to
CompleteApplied ==
  LET duration == clock - state.startTime[1]
  IN /\ state' = [state EXCEPT !.status = "done",
                               !.result = event'.payload.state,
                               !.duration = <<duration>>]
     /\ emitted' = Append(emitted,
                          [name |-> "workflow-complete",
                           payload |-> [workflowId |-> event'.payload.workflowId,
                                        state |-> event'.payload.state,
                                        duration |-> duration,
                                        threadId |-> event'.payload.threadId]])

\* C17 as stated: a complete event handled on a context whose startTime is
\* set sets status to 'done', result to the incoming state and duration to
\* now - startTime, emits exactly one workflow-complete event with workflowId,
\* state, that duration and threadId, and the duration is greater than 0
\* whenever a start has been handled before.
C17_CompletePositive ==
  [][(Delivers(WORKFLOW_COMPLETE) /\ state.startTime # <<>>)
       => /\ CompleteApplied
          /\ ~NoPriorStart => state'.duration[1] > 0]_vars

\* C17 amended: as stated, except that the duration is greater than 0 exactly
\* when the clock reads later than startTime; a complete handled in the
\* millisecond of the start has duration 0.
C17_CompleteApplied ==
  [][(Delivers(WORKFLOW_COMPLETE) /\ state.startTime # <<>>)
       => /\ CompleteApplied
          /\ state'.duration[1] > 0 <=> clock > state.startTime[1]
          /\ state'.duration[1] >= 0]_vars

\* a complete after a start and after time has passed
C17_Witness ==
  /\ event.type = WORKFLOW_COMPLETE /\ ~NoPriorStart
  /\ state.status = "done" /\ state.result = "{a:777}"
  /\ state.duration[1] > 0
  /\ emitted[Len(emitted)].name = "workflow-complete"
  /\ emitted[Len(emitted)].payload.duration = state.duration[1]

\* C18: a log event changes no field of the state and emits exactly one
\* outward event, workflow-log, whose payload is workflowId and threadId
\* together with the level, name, message and time of the event's message.
C18_LogEmitsOnly ==
  [][Delivers(LOG)
       => /\ state' = state
          /\ emitted' = Append(emitted,
               [name |-> "workflow-log",
                payload |-> [workflowId |-> event'.payload.workflowId,
                             threadId |-> event'.payload.threadId,
                             level |-> event'.payload.message.level,
                             name |-> event'.payload.message.name,
                             message |-> event'.payload.message.message,
                             time |-> event'.payload.message.time]])]_vars

\* a log between a start and a complete
C18_Witness ==
  /\ event.type = LOG /\ state.status = "running"
  /\ Len(emitted) = 2 /\ emitted[2].name = "workflow-log"
  /\ emitted[2].payload.level = "error"

C20_StatusTransitions ==
  /\ [][state'.status # state.status
          => <<state.status, state'.status>>
               \in {<<Pending, "running">>, <<"running", "done">>,
                    <<"running", "error">>}]_vars
  /\ [][(Delivers(WORKFLOW_START) /\ state.status = "running")
          => state' = state]_vars

C28_RunningDuration ==
  /\ [](state.status = "running" => state.duration = <<-1>>)
  /\ [][(state'.duration # state.duration /\ state'.duration # <<-1>>)
          => /\ Delivers(WORKFLOW_COMPLETE)
             /\ state'.duration = <<clock - state.startTime[1]>>]_vars

\* a run that was started and then logged, still running
C28_Witness ==
  /\ state.status = "running" /\ event.type = LOG /\ delivered = 2
  /\ state.duration = <<-1>>

C30_OnlyDeadStepsWarned ==
  Called
    => \A i \in StepIdx(plan) :
         (/\ plan.steps[i].id # NoId
          /\ \/ plan.steps[i].next.form # "none"
             \/ \E j \in StepIdx(plan) : plan.steps[i].id \in Range(plan.steps[j].next.keys))
           => Unreferenced(plan.steps[i].id) \notin Range(warnings)

(***************************************************************************)
(* Claims about the errors of the engine                                    *)
(***************************************************************************)
\* the severity of each kind
SeverityOf ==
  [k \in {"TimeoutError", "OOMError", "ExitError", "CompileError",
          "AutoinstallError", "ExecutionError"} |->
     CASE k \in {"TimeoutError", "OOMError"} -> "kill"
       [] k \in {"ExitError", "CompileError"} -> "crash"
       [] k \in {"AutoinstallError", "ExecutionError"} -> "exception"]

\* C24: every error constructed is of one of the six kinds and carries the
\* severity of its kind, whatever its constructor was given: kill for
\* TimeoutError and OOMError, crash for ExitError and CompileError, exception
\* for AutoinstallError and ExecutionError, and never '-'.
C24_SeverityByKind ==
  \A i \in 1..Len(constructed) :
    /\ constructed[i].type \in DOMAIN SeverityOf
    /\ constructed[i].severity = SeverityOf[constructed[i].type]
    /\ constructed[i].severity # "-"
    /\ constructed[i].source = "engine"

\* a CompileError wrapping an error that has a severity of its own, and a
\* TimeoutError without duration
C24_Witness ==
  /\ Len(constructed) = 2
  /\ constructed[1].type = "CompileError" /\ constructed[1].subtype = "TimeoutError"
  /\ constructed[1].severity = "crash"
  /\ constructed[2].type = "TimeoutError" /\ constructed[2].duration = 0

(***************************************************************************)
(* Claims about the order of the outward events                             *)
(***************************************************************************)
\* the outward event each worker event is passed on as
OutwardName(type) ==
  CASE type = WORKFLOW_START -> "workflow-start"
    [] type = LOG -> "workflow-log"
    [] type = WORKFLOW_COMPLETE -> "workflow-complete"

\* the worker has sent one start at most, then logs, then one complete at most
WorkerOrder(h) ==
  /\ \A i, j \in 1..Len(h) :
       i < j => /\ h[j].type # WORKFLOW_START
                /\ h[i].type # WORKFLOW_COMPLETE

\* C25: the outward events are the worker's events, one for one and in the
\* order of delivery, each with the workflowId and threadId of its worker
\* event; so when the worker sends start, then logs, then complete,
\* workflow-start comes before every workflow-log and every workflow-log
\* before workflow-complete.
C25_OutwardInOrder ==
  /\ Len(emitted) = Len(history)
  /\ \A i \in 1..Len(history) :
       /\ emitted[i].name = OutwardName(history[i].type)
       /\ emitted[i].payload.workflowId = history[i].payload.workflowId
       /\ emitted[i].payload.threadId = history[i].payload.threadId
  /\ WorkerOrder(history)
       => \A i, j \in 1..Len(emitted) :
            /\ (emitted[i].name = "workflow-start" /\ emitted[j].name # "workflow-start")
                 => i < j
            /\ (emitted[i].name # "workflow-complete" /\ emitted[j].name = "workflow-complete")
                 => i < j

\* a start, a log and a complete, passed on in that order
C25_Witness ==
  /\ Len(history) = 3 /\ WorkerOrder(history)
  /\ history[1].type = WORKFLOW_START /\ history[3].type = WORKFLOW_COMPLETE
  /\ emitted[1].name = "workflow-start" /\ emitted[2].name = "workflow-log"
  /\ emitted[3].name = "workflow-complete"

(***************************************************************************)
(* Claims about execute                                                     *)
(***************************************************************************)
\* C21: when the promise of callWorker rejects, the failure is not only
\* logged: execute does not resolve normally with the status still pending
\* or running.
C21_FailureSurfaced ==
  logged # <<>> => ~(pc = "resolved" /\ state.status \in {Pending, "running"})

\* C27: compile starts only after autoinstall has returned; callWorker is
\* invoked once at most, and only after autoinstall has returned and compile
\* has passed every job, compiling each one that has an expression; when
\* execute rejects, which is when autoinstall or compile fails, callWorker has
\* not been invoked and no handler has run; a handler runs only after
\* callWorker was invoked.
C27_PhasesInOrder ==
  /\ (pc = "compile" \/ compiled # <<>>) => adaptorPaths # <<>>
  /\ dispatched <= 1
  /\ dispatched = 1
       => /\ adaptorPaths # <<>>
          /\ compileLoops
               => /\ Len(compiled) = Len(workflow.jobs)
                  /\ \A k \in 1..Len(compiled) :
                       compiled[k] = IF workflow.jobs[k] THEN "compiled" ELSE "skipped"
  /\ pc = "rejected"
       => /\ dispatched = 0 /\ delivered = 0
          /\ emitted = <<>> /\ state = createContext("a", <<>>).state
  /\ delivered > 0 => dispatched = 1

\* compile fails on the second job, after autoinstall and the first job
C27_Witness ==
  /\ pc = "rejected" /\ adaptorPaths # <<>>
  /\ compiled = <<"compiled">> /\ Len(workflow.jobs) = 2
  /\ dispatched = 0

====
